---- MODULE Spec2Model ----
(***************************************************************************)
(* Bet settlement of mu-gamble: the provably-fair functions, the generic   *)
(* bet handler handleGameBet with the dice and coin-flip game logic, the   *)
(* game-data endpoint, the bet verification, history and leaderboard       *)
(* endpoints, the CSRF check and the rate limiter.                         *)
(*                                                                         *)
(* Numbers of the program are JavaScript doubles / SQLite reals.  They are *)
(* modelled as exact rationals <<numerator, denominator>> in lowest terms; *)
(* floating-point rounding is not modelled.                                *)
(*                                                                         *)
(* HMAC-SHA256 is modelled as a lazily sampled function: the first query   *)
(* of a (serverSeed, clientSeed, nonce) triple draws the 32-bit prefix of  *)
(* the digest, every later query of the same triple returns it again.      *)
(* SHA-256 is modelled as a free (collision-free) constructor.             *)
(***************************************************************************)
EXTENDS Integers, Sequences, FiniteSets, TLC

VARIABLES
    user,             \* table user: userId -> [balance]
    userGameSession,  \* table user_game_session: userId -> [currentNonce], rows exist lazily
    bet,              \* table bet, rows in insertion (commit) order
    reqs,             \* bet requests: slot -> [pc, userId, balance], balance as read at authentication
    hmac,             \* digests computed so far: <<serverSeed, clientSeed, nonce>> -> 32-bit prefix
    response,         \* the last response sent by any endpoint
    store,            \* the Map of the rate limiter: key -> [count, resetTime]
    now,              \* Date.now(), in milliseconds
    cookies,          \* the csrf-token cookie each client holds, NoToken when it holds none
    processed,        \* per rate limiter key, the requests let through in its current window
    userState,        \* the UserState of the userStore of a page: [user, isLoading]
    called            \* the last call of a method of the userStore: [method, arg, before]

vars ==
    <<user, userGameSession, bet, reqs, hmac, response, store, now, cookies, processed,
      userState, called>>

\* The state of the CSRF check and of the rate limiter
Gate == <<store, now, cookies, processed>>

----------------------------------------------------------------------------
(* Bounds and input domains *)

\* Request slots of handleGameBet
MaxRequests == 2

\* Bet requests made in the behaviours of SpecBet
MaxBets == 1

\* Steps of the clock in the behaviours of SpecLimit
MaxTicks == 2

Requests == 1..MaxRequests

Users == {"u1", "u2"}

DefaultBalance == 1000

HouseEdge == 1

ServerSeeds == {"s1", "s2"}

NoClientSeed == "undefined"

ClientSeedInputs == {NoClientSeed, "c1"}

GeneratedClientSeeds == {"g1"}

\* The first 8 hex characters of a digest, as <<first four, last four>> (two 16-bit
\* halves): 00000000, 00001388 and ffffffff, giving the results 0.00, 50.00 and 72.95
HmacPrefixes == {<<0, 0>>, <<0, 5000>>, <<65535, 65535>>}

None == "none"

\* Date.now() when the server starts, in milliseconds
StartTime == 600000

\* The browsers that send requests
Clients == {"b1"}

\* A csrf-token cookie or an X-CSRF-Token header that is absent or empty
NoToken == << >>

\* CSRF tokens, as the sequences of their character codes: "a", "b", "ab"
CsrfTokens == {<<97>>, <<98>>, <<97, 98>>}

----------------------------------------------------------------------------
(* Exact arithmetic on rationals *)

RECURSIVE Gcd(_, _)
Gcd(a, b) == IF b = 0 THEN a ELSE Gcd(b, a % b)

Abs(x) == IF x < 0 THEN 0 - x ELSE x

Rat(n, d) ==
    LET g == Gcd(Abs(n), d)
    IN  <<n \div g, d \div g>>

Num(n) == <<n, 1>>

Add(x, y) == Rat(x[1] * y[2] + y[1] * x[2], x[2] * y[2])

Sub(x, y) == Rat(x[1] * y[2] - y[1] * x[2], x[2] * y[2])

Mul(x, y) == Rat(x[1] * y[1], x[2] * y[2])

\* y > 0
Div(x, y) == Rat(x[1] * y[2], x[2] * y[1])

Lt(x, y) == x[1] * y[2] < y[1] * x[2]

Le(x, y) == x[1] * y[2] <= y[1] * x[2]

Max(x, y) == IF Lt(x, y) THEN y ELSE x

Min(x, y) == IF Lt(y, x) THEN y ELSE x

----------------------------------------------------------------------------
(* Request bodies *)

\* Amounts of SpecBet: negative, zero, within the default balance and above it
Amounts == {Num(0 - 100), Num(0), Num(600), Num(1100)}

\* Targets at the bounds of the target range and of the win chance range
Targets == {Num(0), Rat(99, 100), Num(1), Num(98), Rat(9801, 100), Num(100)}

Sides == {"cat", "dog", "bird"}

DiceRequests ==
    [gameType : {"dice"}, amount : Amounts, betType : {"over", "under"}, target : Targets,
     clientSeed : ClientSeedInputs]
    \cup
    [gameType : {"dice"}, amount : Amounts, betType : {"sideways"}, target : {Num(50)},
     clientSeed : ClientSeedInputs]

FlipRequests ==
    [gameType : {"flip"}, amount : Amounts, side : Sides, clientSeed : ClientSeedInputs]

BetRequests == DiceRequests \cup FlipRequests

\* The inputs of the behaviours of Spec, which vary the interleaving of the requests
\* and the amounts: zero, more than half the default balance, all of it
LedgerAmounts == {Num(0), Num(600), Num(1000)}

\* dice "over 50.00" and flip "cat", with a generated client seed
LedgerRequests ==
    [gameType : {"dice"}, amount : LedgerAmounts, betType : {"over"}, target : {Num(50)},
     clientSeed : {NoClientSeed}]
    \cup
    [gameType : {"flip"}, amount : LedgerAmounts, side : {"cat"}, clientSeed : {NoClientSeed}]

LedgerSeeds == {"s1"}

\* the digests that give 0.00 (dice loses, flip wins) and 72.95 (dice wins, flip loses)
LedgerPrefixes == {<<0, 0>>, <<65535, 65535>>}

----------------------------------------------------------------------------
(* provably-fair *)

sha256(data) == <<"sha256", data>>

\* a generateServerSeed that returns the hash of another seed than the one it returns
generateServerSeedUnbound(bytes) ==
    [seed |-> bytes, hash |-> sha256(CHOOSE s \in ServerSeeds : s # bytes)]

\* bytes: the value drawn by randomBytes(32)
generateServerSeed(bytes) == [seed |-> bytes, hash |-> sha256(bytes)]

\* bytes: the value drawn by randomBytes(16)
generateClientSeed(bytes) == bytes

verifyServerSeed(serverSeed, serverSeedHash) == sha256(serverSeed) = serverSeedHash

\* parseInt(hex8, 16) % 10000 for the 32-bit value hi * 65536 + lo, computed on the
\* halves since 65536 % 10000 = 5536
mod10000(hex8) == ((hex8[1] % 10000) * 5536 + hex8[2]) % 10000

\* a generateGameResult that scales the digest to [0, 1)
generateGameResultUnit(H, serverSeed, clientSeed, nonce) ==
    LET hex8 == H[<<serverSeed, clientSeed, nonce>>]
    IN  Rat(mod10000(hex8), 10000)

\* H: the digests, H[<<serverSeed, clientSeed, nonce>>] is hash.substring(0, 8)
generateGameResult(H, serverSeed, clientSeed, nonce) ==
    LET hex8 == H[<<serverSeed, clientSeed, nonce>>]
    IN  Rat(mod10000(hex8), 100)

verifyGameResult(H, serverSeed, clientSeed, nonce, expectedResult) ==
    LET calculatedResult == generateGameResult(H, serverSeed, clientSeed, nonce)
        diff == Sub(calculatedResult, expectedResult)
        absDiff == IF Lt(diff, Num(0)) THEN Sub(Num(0), diff) ELSE diff
    IN  Lt(absDiff, Rat(1, 100))

generateDiceRoll(H, serverSeed, clientSeed, nonce) ==
    generateGameResult(H, serverSeed, clientSeed, nonce)

\* a generateCoinFlip that maps 50.00 to 0
generateCoinFlipInclusive(H, serverSeed, clientSeed, nonce) ==
    LET result == generateGameResult(H, serverSeed, clientSeed, nonce)
    IN  IF Le(result, Num(50)) THEN 0 ELSE 1

generateCoinFlip(H, serverSeed, clientSeed, nonce) ==
    LET result == generateGameResult(H, serverSeed, clientSeed, nonce)
    IN  IF Lt(result, Num(50)) THEN 0 ELSE 1

\* an isDiceWin that wins on roll = target
isDiceWinOrTie(roll, betType, target) ==
    IF betType = "over" THEN Le(target, roll) ELSE Le(roll, target)

isDiceWin(roll, betType, target) ==
    IF betType = "over" THEN Lt(target, roll) ELSE Lt(roll, target)

isCoinFlipWin(result, betSide) ==
    LET betValue == IF betSide = "cat" THEN 0 ELSE 1
    IN  result = betValue

calculateDiceWinChance(betType, target) ==
    IF betType = "over"
    THEN Max(Num(0), Min(Num(100), Sub(Num(100), target)))
    ELSE Max(Num(0), Min(Num(100), target))

calculateMultiplier(winChance) ==
    IF Le(winChance, Num(0)) THEN Num(1)
    ELSE Div(Num(100 - HouseEdge), winChance)

Valid == [valid |-> TRUE, error |-> None]

Invalid(msg) == [valid |-> FALSE, error |-> msg]

\* a validateDiceBet that checks the target range and not the win chance
validateDiceBetTargetOnly(amount, betType, target, balance) ==
    IF Le(amount, Num(0)) THEN Invalid("Bet amount must be positive")
    ELSE IF Lt(balance, amount) THEN Invalid("Insufficient balance")
    ELSE IF Lt(target, Rat(1, 100)) \/ Lt(Rat(9999, 100), target)
         THEN Invalid("Target must be between 0.01 and 99.99")
    ELSE Valid

validateDiceBet(amount, betType, target, balance) ==
    IF Le(amount, Num(0)) THEN Invalid("Bet amount must be positive")
    ELSE IF Lt(balance, amount) THEN Invalid("Insufficient balance")
    ELSE IF Lt(target, Rat(1, 100)) \/ Lt(Rat(9999, 100), target)
         THEN Invalid("Target must be between 0.01 and 99.99")
    ELSE LET winChance == calculateDiceWinChance(betType, target)
         IN  IF Lt(winChance, Num(1)) \/ Lt(Num(98), winChance)
             THEN Invalid("Win chance must be between 1% and 98%")
             ELSE Valid

\* a validateCoinFlipBet that does not look at the balance
validateCoinFlipBetUnfunded(amount, side, balance) ==
    IF Le(amount, Num(0)) THEN Invalid("Bet amount must be positive")
    ELSE IF side # "cat" /\ side # "dog" THEN Invalid("Invalid side selection")
    ELSE Valid

validateCoinFlipBet(amount, side, balance) ==
    IF Le(amount, Num(0)) THEN Invalid("Bet amount must be positive")
    ELSE IF Lt(balance, amount) THEN Invalid("Insufficient balance")
    ELSE IF side # "cat" /\ side # "dog" THEN Invalid("Invalid side selection")
    ELSE Valid

----------------------------------------------------------------------------
(* The game logic objects handed to handleGameBet *)

\* Math.round(x * 100) / 100
round2(x) ==
    LET y == Mul(x, Num(100))
    IN  Rat((2 * y[1] + y[2]) \div (2 * y[2]), 100)

diceValidateBet(request, userBalance) ==
    validateDiceBet(request.amount, request.betType, request.target, userBalance)

diceCalculateResult(H, serverSeed, clientSeed, nonce, request) ==
    LET roll == generateDiceRoll(H, serverSeed, clientSeed, nonce)
        win == isDiceWin(roll, request.betType, request.target)
        winChance == calculateDiceWinChance(request.betType, request.target)
        multiplier == calculateMultiplier(winChance)
        payout == IF win THEN Mul(request.amount, multiplier) ELSE Num(0)
    IN  [win |-> win, payout |-> payout, multiplier |-> multiplier, result |-> roll,
         gameData |-> [betType |-> request.betType, target |-> request.target,
                       winChance |-> winChance],
         specific |-> [roll |-> round2(roll)]]

coinFlipValidateBet(request, userBalance) ==
    validateCoinFlipBet(request.amount, request.side, userBalance)

coinFlipCalculateResult(H, serverSeed, clientSeed, nonce, request) ==
    LET flipResultValue == generateCoinFlip(H, serverSeed, clientSeed, nonce)
        flipResult == IF flipResultValue = 0 THEN "cat" ELSE "dog"
        win == isCoinFlipWin(flipResultValue, request.side)
        winChance == Rat(495, 10)
        multiplier == calculateMultiplier(winChance)
        payout == IF win THEN Mul(request.amount, multiplier) ELSE Num(0)
    IN  [win |-> win, payout |-> payout, multiplier |-> multiplier,
         result |-> Num(flipResultValue),
         gameData |-> [side |-> request.side, winChance |-> winChance],
         specific |-> [flipResult |-> flipResult]]

validateBet(request, userBalance) ==
    IF request.gameType = "dice" THEN diceValidateBet(request, userBalance)
    ELSE coinFlipValidateBet(request, userBalance)

calculateResult(H, serverSeed, clientSeed, nonce, request) ==
    IF request.gameType = "dice"
    THEN diceCalculateResult(H, serverSeed, clientSeed, nonce, request)
    ELSE coinFlipCalculateResult(H, serverSeed, clientSeed, nonce, request)

----------------------------------------------------------------------------
(* The game utilities of the client ($lib/utils/game) and the flip page *)

\* Math.round(x * scale) / scale
roundTo(x, scale) ==
    LET y == Mul(x, Num(scale))
    IN  Rat((2 * y[1] + y[2]) \div (2 * y[2]), scale)

gameCalculateDiceWinChance(betType, rollTarget) ==
    IF betType = "over" THEN roundTo(Sub(Num(100), rollTarget), 100)
    ELSE roundTo(rollTarget, 100)

gameCalculateMultiplier(winChance) ==
    IF Lt(Num(0), winChance) THEN roundTo(Div(Num(99), winChance), 10000) ELSE Num(1)

\* const multiplier = 2.0 of the flip page
flipPageMultiplier == Num(2)

----------------------------------------------------------------------------
(* The database transaction of handleGameBet.  tx is the database as the   *)
(* transaction sees it: [user, userGameSession, bet].                      *)

\* the balance of the session user, read before the transaction began
currentBalanceOfSession(tx, r) == reqs[r].balance

\* tx.select({balance}).from(user).where(id = user.id)
currentBalance(tx, r) == tx.user[reqs[r].userId].balance

\* no re-check inside the transaction
balanceNotChecked(balance, amount) == FALSE

\* currentUser[0].balance < betRequest.amount
insufficientBalance(balance, amount) == Lt(balance, amount)

\* a nonce that is not advanced
sameNonce(currentNonce) == currentNonce

nextNonce(currentNonce) == currentNonce + 1

\* an absolute write of the balance computed from the session user
setBalance(tx, r, balanceChange) ==
    [tx EXCEPT !.user[reqs[r].userId].balance = Add(reqs[r].balance, balanceChange)]

\* an update of the balance without the where clause: every row of the table
updateBalanceOfAll(tx, r, balanceChange) ==
    [tx EXCEPT !.user = [u \in DOMAIN @ |-> [@[u] EXCEPT !.balance = Add(@, balanceChange)]]]

\* tx.update(user).set({balance: sql`balance + ${balanceChange}`})
updateBalance(tx, r, balanceChange) ==
    [tx EXCEPT !.user[reqs[r].userId].balance = Add(@, balanceChange)]

\* an insert that overwrites the latest row of the table
replaceBet(rows, row) ==
    IF rows = << >> THEN <<row>> ELSE [rows EXCEPT ![Len(rows)] = row]

\* tx.insert(table.bet).values(row).run()
insertBet(rows, row) == Append(rows, row)

\* The message of the error a statement of the transaction throws when the store fails
storeError(fault) ==
    IF fault = "select" THEN "SQLITE_BUSY: database is locked"
    ELSE "SQLITE_FULL: database or disk is full"

\* The callback given to db.transaction: the state it leaves and what it returns or throws.
\* fault: the statement at which the store fails, the first select or the insert of the
\* bet, None when it does not fail
transactionBody(tx, r, request, serverSeed, serverSeedHash, finalClientSeed, H, fault) ==
    LET userId == reqs[r].userId
        hasSession == userId \in DOMAIN tx.userGameSession
        tx1 == IF hasSession THEN tx
               ELSE [tx EXCEPT !.userGameSession = @ @@ (userId :> [currentNonce |-> 0])]
        currentNonce == IF hasSession THEN tx.userGameSession[userId].currentNonce ELSE 0
        nonce == nextNonce(currentNonce)
        balance == currentBalance(tx1, r)
    IN  IF fault = "select"
        THEN [thrown |-> TRUE, error |-> storeError(fault), tx |-> tx]
        ELSE IF insufficientBalance(balance, request.amount)
        THEN [thrown |-> TRUE, error |-> "Insufficient balance", tx |-> tx1]
        ELSE IF fault = "insert"
        THEN [thrown |-> TRUE, error |-> storeError(fault), tx |-> tx1]
        ELSE
          LET gameResult == calculateResult(H, serverSeed, finalClientSeed, nonce, request)
              balanceChange == Sub(gameResult.payout, request.amount)
              betId == Len(tx1.bet) + 1
              row == [id |-> betId, userId |-> userId, gameType |-> request.gameType,
                      amount |-> request.amount, multiplier |-> gameResult.multiplier,
                      win |-> gameResult.win, payout |-> gameResult.payout,
                      serverSeed |-> serverSeed, serverSeedHash |-> serverSeedHash,
                      clientSeed |-> finalClientSeed, nonce |-> nonce,
                      gameData |-> gameResult.gameData, result |-> gameResult.result]
              tx2 == [tx1 EXCEPT !.bet = insertBet(@, row)]
              tx3 == updateBalance(tx2, r, balanceChange)
              tx4 == [tx3 EXCEPT !.userGameSession[userId].currentNonce = nonce]
              updatedBalance == tx4.user[userId].balance
              baseResult == [betId |-> betId, win |-> gameResult.win,
                             payout |-> round2(gameResult.payout),
                             newBalance |-> round2(updatedBalance),
                             serverSeedHash |-> serverSeedHash,
                             clientSeed |-> finalClientSeed, nonce |-> nonce]
          IN  [thrown |-> FALSE, error |-> None, tx |-> tx4,
               result |-> gameResult.specific @@ baseResult]

\* a db.transaction that keeps what the callback wrote before it threw
transactionWithoutRollback(tx, outcome) == outcome.tx

\* db.transaction: commit when the callback returns, roll back when it throws
transaction(tx, outcome) == IF outcome.thrown THEN tx ELSE outcome.tx

----------------------------------------------------------------------------
(* user-store.ts: the userStore of the client.  A state is [user, isLoading]. *)

\* user: null
NoUser == [null |-> TRUE]

\* writable<UserState>({ user: null, isLoading: false })
userStoreInitial == [user |-> NoUser, isLoading |-> FALSE]

userStoreSetUser(state, newUser) == [state EXCEPT !.user = newUser]

\* an updateBalance that clears isLoading
userStoreUpdateBalanceLoaded(state, newBalance) ==
    IF state.user # NoUser
    THEN [user |-> [state.user EXCEPT !.balance = newBalance], isLoading |-> FALSE]
    ELSE state

userStoreUpdateBalance(state, newBalance) ==
    IF state.user # NoUser
    THEN [state EXCEPT !.user = [state.user EXCEPT !.balance = newBalance]]
    ELSE state

userStoreSetLoading(state, isLoading) == [state EXCEPT !.isLoading = isLoading]

\* a reset that keeps isLoading
userStoreResetUser(state) == [state EXCEPT !.user = NoUser]

userStoreReset(state) == [user |-> NoUser, isLoading |-> FALSE]

\* No method of the userStore was called yet
NoCall == [method |-> None]

\* Balances of the users given to setUser
LoadedBalances == {Num(0), Num(DefaultBalance)}

\* Balances given to updateBalance: the newBalance of bet responses
NewBalances == {Rat(1, 100), Num(450), Num(550), Num(1098), Num(1500)}

\* The users given to setUser
PublicUsers ==
    [id : Users, username : {"testuser", "other"}, balance : LoadedBalances,
     isAdmin : BOOLEAN]

----------------------------------------------------------------------------
(* State *)

NoResponse ==
    [endpoint |-> "none", req |-> 0, userId |-> None, status |-> 0, error |-> None,
     logged |-> FALSE, data |-> [none |-> TRUE]]

Init ==
    /\ user = [u \in Users |-> [balance |-> Num(DefaultBalance)]]
    /\ userGameSession = << >>
    /\ bet = << >>
    /\ reqs = [r \in Requests |-> [pc |-> "idle", userId |-> None, balance |-> Num(0)]]
    /\ hmac = << >>
    /\ response = NoResponse
    /\ store = << >>
    /\ now = StartTime
    /\ cookies = [c \in Clients |-> NoToken]
    /\ processed = << >>
    /\ userState = userStoreInitial
    /\ called = NoCall

database == [user |-> user, userGameSession |-> userGameSession, bet |-> bet]

\* The rows of the bet table of user u, in commit order
BetsOf(u) == SelectSeq(bet, LAMBDA b : b.userId = u)

RECURSIVE SumOf(_, _)
\* The sum of field f ("amount" or "payout") over the rows of a sequence of bets
SumOf(rows, f) ==
    IF rows = << >> THEN Num(0)
    ELSE Add(IF f = "amount" THEN Head(rows).amount ELSE Head(rows).payout,
             SumOf(Tail(rows), f))

Triples ==
    ServerSeeds \X (ClientSeedInputs \cup {""} \cup GeneratedClientSeeds) \X (0..(MaxRequests + 1))

----------------------------------------------------------------------------
(* handleGameBet *)

\* The CSRF check, the session lookup and the rate limit pass; the session's user
\* carries the balance read now.  The handler then awaits the request body.
Authenticate(r) ==
    /\ reqs[r].pc = "idle"
    /\ \A q \in Requests : q < r => reqs[q].pc # "idle"
    /\ \E u \in Users :
         reqs' = [reqs EXCEPT ![r] = [pc |-> "authenticated", userId |-> u,
                                      balance |-> user[u].balance]]
    /\ UNCHANGED <<user, userGameSession, bet, hmac, response, store, now, cookies, processed,
                   userState, called>>

\* The client seeds of a request body that JavaScript takes as false: absent, empty
Falsy == {NoClientSeed, ""}

\* A request body that is not JSON: event.request.json() rejects
MalformedBody == [gameType |-> "malformed"]

\* betRequest.clientSeed || generateClientSeed()
finalClientSeedOf(request, bytes) ==
    IF request.clientSeed \notin Falsy THEN request.clientSeed
    ELSE generateClientSeed(bytes)

\* a catch block that answers with the message of the error
catchLeaking(message) ==
    IF message = "Insufficient balance"
    THEN [status |-> 400, error |-> "Insufficient balance"]
    ELSE [status |-> 500, error |-> message]

\* a catch block that answers every error alike
catchAll(message) == [status |-> 500, error |-> "Internal server error"]

\* The catch block: console.error, then the response for the error thrown
catch(message) ==
    IF message = "Insufficient balance"
    THEN [status |-> 400, error |-> "Insufficient balance"]
    ELSE [status |-> 500, error |-> "Internal server error"]

\* From the parsed body to the response: validation, seeds, the transaction, the catch.
\* The code runs this part without awaiting, so no other request runs in between.
SettleBody(r, requests, seeds, prefixes, faults) ==
    /\ reqs' = [reqs EXCEPT ![r].pc = "done"]
    /\ UNCHANGED Gate
    /\ UNCHANGED <<userState, called>>
    /\ \E request \in requests :
         LET validation == validateBet(request, reqs[r].balance)
         IN  IF request = MalformedBody
             THEN /\ response' = [endpoint |-> "bet", req |-> r, userId |-> reqs[r].userId,
                                  status |-> 400, error |-> "Invalid request body",
                                  logged |-> FALSE, caught |-> None,
                                  data |-> [none |-> TRUE]]
                  /\ UNCHANGED <<user, userGameSession, bet, hmac>>
             ELSE IF ~validation.valid
             THEN /\ response' = [endpoint |-> "bet", req |-> r, userId |-> reqs[r].userId,
                                  status |-> 400, error |-> validation.error,
                                  logged |-> FALSE, caught |-> None,
                                  data |-> [amount |-> request.amount]]
                  /\ UNCHANGED <<user, userGameSession, bet, hmac>>
             ELSE \E seedBytes \in seeds, clientBytes \in GeneratedClientSeeds,
                     prefix \in prefixes, fault \in faults :
                    LET generated == generateServerSeed(seedBytes)
                        finalClientSeed == finalClientSeedOf(request, clientBytes)
                        H == [k \in Triples |-> IF k \in DOMAIN hmac THEN hmac[k] ELSE prefix]
                    IN  \E outcome \in {transactionBody(database, r, request, generated.seed,
                                                        generated.hash, finalClientSeed, H,
                                                        fault)} :
                        \E after \in {transaction(database, outcome)} :
                          /\ user' = after.user
                          /\ userGameSession' = after.userGameSession
                          /\ bet' = after.bet
                          /\ IF outcome.thrown
                             THEN /\ hmac' = hmac
                                  /\ response' =
                                       [endpoint |-> "bet", req |-> r,
                                        userId |-> reqs[r].userId,
                                        status |-> catch(outcome.error).status,
                                        error |-> catch(outcome.error).error,
                                        logged |-> TRUE, caught |-> outcome.error,
                                        data |-> [amount |-> request.amount]]
                             ELSE LET key == <<generated.seed, finalClientSeed,
                                               outcome.result.nonce>>
                                  IN  /\ hmac' = IF key \in DOMAIN hmac THEN hmac
                                                 ELSE hmac @@ (key :> H[key])
                                      /\ response' =
                                           [endpoint |-> "bet", req |-> r,
                                            userId |-> reqs[r].userId, status |-> 200,
                                            error |-> None, logged |-> FALSE,
                                            caught |-> None,
                                            data |-> [amount |-> request.amount,
                                                      clientSeed |-> request.clientSeed,
                                                      result |-> outcome.result]]

\* The request body arrived; the store does not fail
Settle(r, requests, seeds, prefixes) ==
    /\ reqs[r].pc = "authenticated"
    /\ SettleBody(r, requests, seeds, prefixes, {None})

----------------------------------------------------------------------------
(* csrf.ts.  An event is [method, cookie, header]: the request method, the csrf-token *)
(* cookie and the X-CSRF-Token header it arrives with.                               *)

RECURSIVE bitXor(_, _)
\* a ^ b
bitXor(a, b) ==
    IF a = 0 THEN b
    ELSE IF b = 0 THEN a
    ELSE 2 * bitXor(a \div 2, b \div 2) + ((a + b) % 2)

RECURSIVE bitOr(_, _)
\* a | b
bitOr(a, b) ==
    IF a = 0 THEN b
    ELSE IF b = 0 THEN a
    ELSE 2 * bitOr(a \div 2, b \div 2) + (IF a % 2 = 1 \/ b % 2 = 1 THEN 1 ELSE 0)

RECURSIVE xorFold(_, _, _)
\* result |= a.charCodeAt(i) ^ b.charCodeAt(i), for i from 1 to n
xorFold(a, b, n) ==
    IF n = 0 THEN 0 ELSE bitOr(xorFold(a, b, n - 1), bitXor(a[n], b[n]))

constantTimeEqual(a, b) ==
    IF Len(a) # Len(b) THEN FALSE ELSE xorFold(a, b, Len(a)) = 0

SafeMethods == {"GET", "HEAD", "OPTIONS"}

Methods == SafeMethods \cup {"POST", "DELETE"}

\* a validateCSRFToken that does not look at the header
validateCSRFTokenCookieOnly(method, cookieToken, headerToken) ==
    IF method \in SafeMethods THEN TRUE
    ELSE cookieToken # NoToken

\* cookieToken: what event.cookies.get returns, the cookie set during this request if
\* one was set, else the cookie the request arrived with
validateCSRFToken(method, cookieToken, headerToken) ==
    IF method \in SafeMethods THEN TRUE
    ELSE IF cookieToken = NoToken \/ headerToken = NoToken THEN FALSE
    ELSE constantTimeEqual(cookieToken, headerToken)

\* bytes: the value drawn by crypto.getRandomValues
generateCSRFToken(bytes) == bytes

\* The result of handleCSRF and the cookie the response sets, NoToken when it sets none
handleCSRF(event, bytes) ==
    LET generated == event.cookie = NoToken
        token == IF generated THEN generateCSRFToken(bytes) ELSE event.cookie
    IN  [passed |-> validateCSRFToken(event.method, token, event.header),
         setCookie |-> IF generated THEN token ELSE NoToken]

\* The values crypto.getRandomValues can draw for a request: the values of the model
\* that the request does not carry, a drawn token being unknown to the sender
FreshTokens(header) == CsrfTokens \ {header}

\* The cookie jar of a client after a response
cookiesAfter(c, setCookie) ==
    IF setCookie = NoToken THEN cookies ELSE [cookies EXCEPT ![c] = setCookie]

\* GET /api/csrf: getCSRFTokenForClient, where crypto.getRandomValues draws from tokens
CsrfToken(c, tokens) ==
    /\ \E bytes \in tokens :
         LET generated == cookies[c] = NoToken
             token == IF generated THEN generateCSRFToken(bytes) ELSE cookies[c]
         IN  /\ cookies' = cookiesAfter(c, IF generated THEN token ELSE NoToken)
             /\ response' = [endpoint |-> "csrf", req |-> 0, userId |-> None,
                              status |-> 200, error |-> None, logged |-> FALSE,
                              data |-> [token |-> token]]
    /\ UNCHANGED <<user, userGameSession, bet, reqs, hmac, store, now, processed,
                   userState, called>>

\* handleCSRF on a request of client c with any method, as a route calls it first: the
\* route answers 403 when it fails and goes on (status 0: no response yet) when it passes
CheckCSRF(c, method, header) ==
    /\ \E bytes \in FreshTokens(header) :
         LET event == [method |-> method, cookie |-> cookies[c], header |-> header]
             csrf == handleCSRF(event, bytes)
         IN  /\ cookies' = cookiesAfter(c, csrf.setCookie)
             /\ response' = [endpoint |-> "handleCSRF", req |-> 0, userId |-> None,
                              status |-> IF csrf.passed THEN 0 ELSE 403,
                              error |-> None, logged |-> FALSE,
                              data |-> [event |-> event, passed |-> csrf.passed,
                                        setCookie |-> csrf.setCookie]]
    /\ UNCHANGED <<user, userGameSession, bet, reqs, hmac, store, now, processed,
                   userState, called>>

----------------------------------------------------------------------------
(* rate-limiter.ts.  S is the Map store: key -> [count, resetTime]; t is Date.now().  *)

RATE_LIMITS ==
    [auth |-> [windowMs |-> 15 * 60 * 1000, maxRequests |-> 5],
     betting |-> [windowMs |-> 60 * 1000, maxRequests |-> 60],
     api |-> [windowMs |-> 60 * 1000, maxRequests |-> 100]]

\* `${identifier}:${config.windowMs}:${config.maxRequests}`
keyOf(identifier, config) == <<identifier, config.windowMs, config.maxRequests>>

\* The key under which the store keeps the time of the last cleanup
LastCleanup == <<<<"__last_cleanup__", "">>, 0, 0>>

cleanupExpiredEntries(S, t) ==
    LET lastCleanup == IF LastCleanup \in DOMAIN S THEN S[LastCleanup].resetTime ELSE 0
        kept == {k \in DOMAIN S : k = LastCleanup \/ ~(t > S[k].resetTime)}
    IN  IF t - lastCleanup < 5 * 60 * 1000 THEN S
        ELSE [k \in kept \cup {LastCleanup} |->
                IF k = LastCleanup THEN [count |-> 0, resetTime |-> t] ELSE S[k]]

\* an isRateLimited whose rejected calls begin the window of the key again
isRateLimitedExtending(S, t, identifier, config) ==
    LET key == keyOf(identifier, config)
        S1 == cleanupExpiredEntries(S, t)
    IN  IF key \notin DOMAIN S1 \/ t > S1[key].resetTime
        THEN [store |-> [k \in DOMAIN S1 \cup {key} |->
                           IF k = key THEN [count |-> 1, resetTime |-> t + config.windowMs]
                           ELSE S1[k]],
              limited |-> FALSE, remaining |-> config.maxRequests - 1,
              resetTime |-> t + config.windowMs]
        ELSE IF S1[key].count >= config.maxRequests
        THEN [store |-> [S1 EXCEPT ![key].resetTime = t + config.windowMs],
              limited |-> TRUE, remaining |-> 0, resetTime |-> t + config.windowMs]
        ELSE [store |-> [S1 EXCEPT ![key].count = @ + 1], limited |-> FALSE,
              remaining |-> config.maxRequests - (S1[key].count + 1),
              resetTime |-> S1[key].resetTime]

\* The result of isRateLimited and the store it leaves
isRateLimited(S, t, identifier, config) ==
    LET key == keyOf(identifier, config)
        S1 == cleanupExpiredEntries(S, t)
    IN  IF key \notin DOMAIN S1 \/ t > S1[key].resetTime
        THEN [store |-> [k \in DOMAIN S1 \cup {key} |->
                           IF k = key THEN [count |-> 1, resetTime |-> t + config.windowMs]
                           ELSE S1[k]],
              limited |-> FALSE, remaining |-> config.maxRequests - 1,
              resetTime |-> t + config.windowMs]
        ELSE IF S1[key].count >= config.maxRequests
        THEN [store |-> S1, limited |-> TRUE, remaining |-> 0,
              resetTime |-> S1[key].resetTime]
        ELSE [store |-> [S1 EXCEPT ![key].count = @ + 1], limited |-> FALSE,
              remaining |-> config.maxRequests - (S1[key].count + 1),
              resetTime |-> S1[key].resetTime]

\* Math.ceil(ms / 1000)
ceilSeconds(ms) == (ms + 999) \div 1000

\* The headers, and the store that the call of isRateLimited inside leaves
getRateLimitHeaders(S, t, identifier, config) ==
    LET result == isRateLimited(S, t, identifier, config)
    IN  [store |-> result.store,
         headers |-> [limit |-> config.maxRequests, remaining |-> result.remaining,
                      reset |-> ceilSeconds(result.resetTime)]]

\* The rate limiting of a route: isRateLimited, then getRateLimitHeaders
rateLimit(S, t, identifier, config) ==
    LET rateLimitResult == isRateLimited(S, t, identifier, config)
        headers == getRateLimitHeaders(rateLimitResult.store, t, identifier, config)
    IN  [store |-> headers.store, limited |-> rateLimitResult.limited,
         headers |-> headers.headers]

\* The requests of a key let through in its current window, after one more request
\* was handled at time t with the given result
processedAfter(key, t, limited) ==
    LET begun == key \notin DOMAIN store \/ t > store[key].resetTime
        before == IF begun \/ key \notin DOMAIN processed THEN 0 ELSE processed[key]
        after == IF limited THEN before ELSE before + 1
    IN  [k \in DOMAIN processed \cup {key} |-> IF k = key THEN after ELSE processed[k]]

\* `${user.id}:betting`
bettingIdentifier(u) == <<u, "betting">>

\* event.getClientAddress()
ipIdentifier(ip) == <<ip, "">>

IPs == {"ip1"}

\* The Origin header of a request to the auth route: absent, the host, another site
Origins == {None, "https://host", "https://evil"}

----------------------------------------------------------------------------
(* The clock, the auth route and the start of handleGameBet *)

\* Milliseconds that pass between two requests: none, or the auth window, which ends
\* the betting window of a key and leaves its auth window at its last millisecond
TickSteps == {RATE_LIMITS.auth.windowMs}

\* The number of steps of the clock that lead from StartTime to t
elapsedTicks(t) == (t - StartTime) \div RATE_LIMITS.auth.windowMs

Tick(d) ==
    /\ elapsedTicks(now + d) <= MaxTicks
    /\ now' = now + d
    /\ UNCHANGED <<user, userGameSession, bet, reqs, hmac, response, store, cookies,
                   processed, userState, called>>

\* POST /api/auth up to the rate limit: the origin check and the rate limit.  The
\* validation, login and registration that follow for a request let through, and the
\* response they end with, are not modelled.
AuthAttempt(ip, origin) ==
    /\ IF origin # None /\ origin # "https://host"
       THEN /\ response' = [endpoint |-> "auth", req |-> 0, userId |-> None, status |-> 403,
                            error |-> "Invalid origin", logged |-> FALSE,
                            data |-> [ip |-> ip]]
            /\ UNCHANGED <<store, processed>>
       ELSE LET limit == rateLimit(store, now, ipIdentifier(ip), RATE_LIMITS.auth)
                key == keyOf(ipIdentifier(ip), RATE_LIMITS.auth)
            IN  /\ store' = limit.store
                /\ processed' = processedAfter(key, now, limit.limited)
                /\ IF limit.limited
                   THEN response' = [endpoint |-> "auth", req |-> 0, userId |-> None,
                                     status |-> 429,
                                     error |-> "Too many attempts. Please try again later.",
                                     logged |-> FALSE,
                                     data |-> [ip |-> ip, key |-> key,
                                               headers |-> limit.headers]]
                   ELSE UNCHANGED response
    /\ UNCHANGED <<user, userGameSession, bet, reqs, hmac, now, cookies, userState, called>>

\* The users whose bet requests SpecCsrf and SpecLimit follow
GateUsers == {"u1"}

\* What a request has in place of the session of a user: no session cookie, or the
\* token of a session that does not exist or has expired
BadSessions == {"no token", "no session"}

sessionError(session) ==
    IF session = "no token" THEN "Authentication required" ELSE "Invalid session"

\* handleGameBet up to the await of the body, for a request of client c with the
\* session of user u, or with u in BadSessions: the CSRF check, the session lookup, the
\* rate limit.  The slot r is free: it has had no request, or its request was answered.
EnterBet(r, c, u, header) ==
    /\ reqs[r].pc # "authenticated"
    /\ Cardinality({q \in Requests : reqs[q].pc = "authenticated"}) < MaxBets
    /\ \E bytes \in FreshTokens(header) :
         LET event == [method |-> "POST", cookie |-> cookies[c], header |-> header]
             csrf == handleCSRF(event, bytes)
             limit == rateLimit(store, now, bettingIdentifier(u), RATE_LIMITS.betting)
             key == keyOf(bettingIdentifier(u), RATE_LIMITS.betting)
         IN  /\ cookies' = cookiesAfter(c, csrf.setCookie)
             /\ IF ~csrf.passed
                THEN /\ response' = [endpoint |-> "bet", req |-> r, userId |-> u,
                                     status |-> 403,
                                     error |-> "CSRF token validation failed",
                                     logged |-> FALSE, caught |-> None,
                                     data |-> [event |-> event]]
                     /\ reqs' = [reqs EXCEPT ![r] = [pc |-> "idle", userId |-> None,
                                                     balance |-> Num(0)]]
                     /\ UNCHANGED <<store, processed>>
                ELSE IF u \in BadSessions
                THEN /\ response' = [endpoint |-> "bet", req |-> r, userId |-> None,
                                     status |-> 401, error |-> sessionError(u),
                                     logged |-> FALSE, caught |-> None,
                                     data |-> [event |-> event]]
                     /\ reqs' = [reqs EXCEPT ![r] = [pc |-> "idle", userId |-> None,
                                                     balance |-> Num(0)]]
                     /\ UNCHANGED <<store, processed>>
                ELSE /\ store' = limit.store
                     /\ processed' = processedAfter(key, now, limit.limited)
                     /\ IF limit.limited
                        THEN /\ response' = [endpoint |-> "bet", req |-> r, userId |-> u,
                                             status |-> 429,
                                             error |-> "Too many bets. Please slow down.",
                                             logged |-> FALSE, caught |-> None,
                                             data |-> [key |-> key,
                                                       headers |-> limit.headers]]
                             /\ reqs' = [reqs EXCEPT ![r] = [pc |-> "idle", userId |-> None,
                                                             balance |-> Num(0)]]
                        ELSE /\ reqs' = [reqs EXCEPT ![r] = [pc |-> "authenticated",
                                                             userId |-> u,
                                                             balance |-> user[u].balance]]
                             /\ UNCHANGED response
    /\ UNCHANGED <<user, userGameSession, bet, hmac, now, userState, called>>

\* flip "cat" for 600
GateRequests ==
    [gameType : {"flip"}, amount : {Num(600)}, side : {"cat"}, clientSeed : {NoClientSeed}]

\* the digest that gives 72.95: the flip loses
GatePrefixes == {<<65535, 65535>>}

\* A bet request of SpecCsrf starts when fewer than MaxRequests bet requests have
\* passed the CSRF check
EnterBetChecked(r, c, u, header) ==
    /\ LET key == keyOf(bettingIdentifier(u), RATE_LIMITS.betting)
       IN  key \in DOMAIN processed => processed[key] < MaxRequests
    /\ EnterBet(r, c, u, header)

CsrfHeaders == {NoToken} \cup CsrfTokens

\* Bet requests with every X-CSRF-Token header, and the CSRF endpoints
NextCsrf ==
    \/ \E c \in Clients : CsrfToken(c, CsrfTokens)
    \/ \E c \in Clients, method \in Methods, header \in CsrfHeaders :
         CheckCSRF(c, method, header)
    \/ \E r \in Requests, c \in Clients, u \in GateUsers, header \in CsrfHeaders :
         EnterBetChecked(r, c, u, header)
    \/ \E r \in Requests : Settle(r, GateRequests, LedgerSeeds, GatePrefixes)

SpecCsrf == Init /\ [][NextCsrf]_vars

\* The token the clients of SpecLimit are given
LimitTokens == {<<97>>}

\* A bet request of SpecLimit is sent by the page, which has fetched the token of its
\* cookie and sends it in the header
EnterBetWithToken(r, c, u) ==
    /\ cookies[c] # NoToken
    /\ EnterBet(r, c, u, cookies[c])

\* Bet requests that carry the token of their cookie, auth attempts and the clock
NextLimit ==
    \/ \E d \in TickSteps : Tick(d)
    \/ \E c \in Clients : CsrfToken(c, LimitTokens)
    \/ \E ip \in IPs, origin \in Origins : AuthAttempt(ip, origin)
    \/ \E r \in Requests, c \in Clients, u \in GateUsers : EnterBetWithToken(r, c, u)
    \/ \E r \in Requests : Settle(r, GateRequests, LedgerSeeds, GatePrefixes)

SpecLimit == Init /\ [][NextLimit]_vars

\* A bet request takes the first slot that holds no request in flight
EnterBetNext(r, c, u, header) ==
    /\ \A q \in 1..(r - 1) : reqs[q].pc = "authenticated"
    /\ EnterBet(r, c, u, header)

\* A bet request of SpecWindow is sent with the token of its cookie and takes the first
\* slot that holds no request in flight
EnterBetNextWithToken(r, c, u) ==
    /\ cookies[c] # NoToken
    /\ EnterBetNext(r, c, u, cookies[c])

\* Bodies that are rejected before the transaction: flip "cat" for 0, not JSON
WindowRequests ==
    [gameType : {"flip"}, amount : {Num(0)}, side : {"cat"}, clientSeed : {NoClientSeed}]
    \cup
    {MalformedBody}

\* Auth attempts and rejected bet requests over several windows of the rate limiter
NextWindow ==
    \/ \E d \in TickSteps : Tick(d)
    \/ \E c \in Clients : CsrfToken(c, LimitTokens)
    \/ \E ip \in IPs, origin \in Origins : AuthAttempt(ip, origin)
    \/ \E r \in Requests, c \in Clients, u \in GateUsers : EnterBetNextWithToken(r, c, u)
    \/ \E r \in Requests : Settle(r, WindowRequests, LedgerSeeds, GatePrefixes)

SpecWindow == Init /\ [][NextWindow]_vars

\* The headers of the bet requests of SpecStages: none, the token of the cookie
StageHeaders(c) == {NoToken, cookies[c]}

\* flip "cat" for 600, flip "cat" for 0, a body that is not JSON
StageRequests ==
    [gameType : {"flip"}, amount : {Num(600), Num(0)}, side : {"cat"},
     clientSeed : {NoClientSeed}]
    \cup
    {MalformedBody}

\* Bet requests that fail at every stage of handleGameBet or at none
NextStages ==
    \/ \E c \in Clients : CsrfToken(c, LimitTokens)
    \/ \E r \in Requests, c \in Clients, u \in GateUsers \cup BadSessions :
         \E header \in StageHeaders(c) : EnterBetNext(r, c, u, header)
    \/ \E r \in Requests : Settle(r, StageRequests, LedgerSeeds, GatePrefixes)

SpecStages == Init /\ [][NextStages]_vars

----------------------------------------------------------------------------
(* handleGameData: GET /api/game/dice and /api/game/flip *)

\* a nonce that is the current nonce of the user
currentNonceOf(sessions, u) ==
    IF u \in DOMAIN sessions THEN sessions[u].currentNonce ELSE 1

\* userSession.length > 0 ? userSession[0].currentNonce + 1 : 1
nextNonceOf(sessions, u) ==
    IF u \in DOMAIN sessions THEN sessions[u].currentNonce + 1 ELSE 1

GameData(u) ==
    /\ \E seedBytes \in ServerSeeds :
         LET nonce == nextNonceOf(userGameSession, u)
             generated == generateServerSeed(seedBytes)
         IN  response' = [endpoint |-> "gameData", req |-> 0, userId |-> u, status |-> 200,
                          error |-> None, logged |-> FALSE,
                          data |-> [nextNonce |-> nonce,
                                    nextServerSeedHash |-> generated.hash,
                                    balance |-> user[u].balance]]
    /\ UNCHANGED <<user, userGameSession, bet, reqs, hmac, store, now, cookies, processed,
                   userState, called>>

----------------------------------------------------------------------------
(* GET /api/game/verify?betId= *)

\* The data of the verification response for a bet row
verifyBet(H, b) ==
    LET seedHashValid == verifyServerSeed(b.serverSeed, b.serverSeedHash)
        calculatedResult ==
            IF b.gameType = "dice"
            THEN generateDiceRoll(H, b.serverSeed, b.clientSeed, b.nonce)
            ELSE Num(generateCoinFlip(H, b.serverSeed, b.clientSeed, b.nonce))
        verified == seedHashValid
                    /\ verifyGameResult(H, b.serverSeed, b.clientSeed, b.nonce, b.result)
    IN  [betId |-> b.id, verified |-> verified, serverSeed |-> b.serverSeed,
         serverSeedHash |-> b.serverSeedHash, clientSeed |-> b.clientSeed,
         nonce |-> b.nonce, expectedResult |-> b.result,
         calculatedResult |-> calculatedResult, gameType |-> b.gameType,
         seedHashValid |-> seedHashValid, gameData |-> b.gameData]

\* a selection by the id alone
selectBetById(rows, betId, userId) == {i \in 1..Len(rows) : rows[i].id = betId}

\* where(and(eq(bet.id, betId), eq(bet.userId, user.id)))
selectBet(rows, betId, userId) ==
    {i \in 1..Len(rows) : rows[i].id = betId /\ rows[i].userId = userId}

Verify(u, betId) ==
    /\ LET bets == selectBet(bet, betId, u)
       IN  IF bets = {}
           THEN response' = [endpoint |-> "verify", req |-> 0, userId |-> u, status |-> 404,
                             error |-> "Bet not found", logged |-> FALSE,
                             data |-> [betId |-> betId]]
           ELSE response' = [endpoint |-> "verify", req |-> 0, userId |-> u, status |-> 200,
                             error |-> None, logged |-> FALSE,
                             data |-> verifyBet(hmac, bet[CHOOSE i \in bets : TRUE])]
    /\ UNCHANGED <<user, userGameSession, bet, reqs, hmac, store, now, cookies, processed,
                   userState, called>>

----------------------------------------------------------------------------
(* GET /api/game/history and GET /api/leaderboard *)

\* a selection of every column of the bet row
betRow(b) == b

\* The columns of a bet row that the history query selects
historyRow(b) ==
    [id |-> b.id, gameType |-> b.gameType, amount |-> b.amount,
     multiplier |-> b.multiplier, win |-> b.win, payout |-> b.payout,
     result |-> b.result, gameData |-> b.gameData, serverSeedHash |-> b.serverSeedHash,
     clientSeed |-> b.clientSeed, nonce |-> b.nonce]

RECURSIVE Reverse(_)
Reverse(rows) == IF rows = << >> THEN << >> ELSE Append(Reverse(Tail(rows)), Head(rows))

GameTypeFilters == {None, "dice", "flip"}

\* The first page of the bets of the session user, newest first; creation times are
\* modelled by the commit order
History(u, gameType) ==
    /\ LET rows == SelectSeq(bet, LAMBDA b : /\ b.userId = u
                                             /\ gameType # None => b.gameType = gameType)
           bets == Reverse(rows)
       IN  response' = [endpoint |-> "history", req |-> 0, userId |-> u, status |-> 200,
                        error |-> None, logged |-> FALSE,
                        data |-> [bets |-> [i \in 1..Len(bets) |-> historyRow(bets[i])],
                                  total |-> Len(rows), page |-> 1, limit |-> 20]]
    /\ UNCHANGED <<user, userGameSession, bet, reqs, hmac, store, now, cookies, processed,
                   userState, called>>

\* The statistics of the users with at least 5 bets, with the default parameters
Leaderboard ==
    /\ LET ranked == {u \in Users : Len(BetsOf(u)) >= 5}
       IN  response' = [endpoint |-> "leaderboard", req |-> 0, userId |-> None,
                        status |-> 200, error |-> None, logged |-> FALSE,
                        data |-> [entries |->
                                    {[username |-> u,
                                      totalWagered |-> round2(SumOf(BetsOf(u), "amount")),
                                      totalProfit |-> round2(Sub(SumOf(BetsOf(u), "payout"),
                                                                 SumOf(BetsOf(u), "amount"))),
                                      totalBets |-> Len(BetsOf(u))] : u \in ranked}]]
    /\ UNCHANGED <<user, userGameSession, bet, reqs, hmac, store, now, cookies, processed,
                   userState, called>>

----------------------------------------------------------------------------

\* Concurrent bet requests of the users
Next ==
    \/ \E r \in Requests : Authenticate(r)
    \/ \E r \in Requests : Settle(r, LedgerRequests, LedgerSeeds, LedgerPrefixes)

Spec == Init /\ [][Next]_vars

\* A bet request of SpecBet starts when at most MaxBets - 1 requests were made before
AuthenticateBet(r) ==
    /\ Cardinality({q \in Requests : reqs[q].pc # "idle"}) < MaxBets
    /\ Authenticate(r)

\* Bet requests with every request body, seed and digest, and the GET endpoints
NextBet ==
    \/ \E r \in Requests : AuthenticateBet(r)
    \/ \E r \in Requests : Settle(r, BetRequests, ServerSeeds, HmacPrefixes)
    \/ \E u \in Users : GameData(u)
    \/ \E u \in Users, betId \in 1..(Len(bet) + 1) : Verify(u, betId)

SpecBet == Init /\ [][NextBet]_vars

\* flip "cat" and dice "under 98.00" for 400, which a principal can afford twice
\* whatever the first outcome; the dice bet pays 400 * 99 / 98
AuditRequests ==
    [gameType : {"flip"}, amount : {Num(400)}, side : {"cat"}, clientSeed : {NoClientSeed}]
    \cup
    [gameType : {"dice"}, amount : {Num(400)}, betType : {"under"}, target : {Num(98)},
     clientSeed : {NoClientSeed}]

\* Concurrent bet requests and every endpoint that reads the bet table
NextAudit ==
    \/ \E r \in Requests : Authenticate(r)
    \/ \E r \in Requests : Settle(r, AuditRequests, LedgerSeeds, LedgerPrefixes)
    \/ \E u \in Users : GameData(u)
    \/ \E u \in Users, betId \in 1..(Len(bet) + 1) : Verify(u, betId)
    \/ \E u \in Users, gameType \in GameTypeFilters : History(u, gameType)
    \/ Leaderboard

SpecAudit == Init /\ [][NextAudit]_vars

\* dice for 100 on target 50.00, flip for 50 and for 500; the flip "cat" for 50 with
\* every kind of client seed: absent, empty, given
GameRequests ==
    [gameType : {"dice"}, amount : {Num(100)}, betType : {"over", "under"},
     target : {Num(50)}, clientSeed : {NoClientSeed}]
    \cup
    [gameType : {"flip"}, amount : {Num(50)}, side : {"cat"},
     clientSeed : {NoClientSeed, "", "c1"}]
    \cup
    [gameType : {"flip"}, amount : {Num(50)}, side : {"dog"}, clientSeed : {NoClientSeed}]
    \cup
    [gameType : {"flip"}, amount : {Num(500)}, side : {"cat"}, clientSeed : {NoClientSeed}]

\* A bet request of SpecGame starts when no other request is in flight
AuthenticateGame(r) ==
    /\ \A q \in Requests : reqs[q].pc # "authenticated"
    /\ Authenticate(r)

\* Bet requests one after the other, with every digest
NextGame ==
    \/ \E r \in Requests : AuthenticateGame(r)
    \/ \E r \in Requests : Settle(r, GameRequests, LedgerSeeds, HmacPrefixes)

SpecGame == Init /\ [][NextGame]_vars

\* The requests of Spec, a flip on a side that does not exist and a body that is not JSON
FaultRequests ==
    LedgerRequests
    \cup
    [gameType : {"flip"}, amount : {Num(600)}, side : {"bird"}, clientSeed : {NoClientSeed}]
    \cup
    {MalformedBody}

\* The statements of the transaction at which the store fails, None: it does not fail
StoreFaults == {None, "select", "insert"}

\* The body arrived; the store may fail inside the transaction
SettleFault(r) ==
    /\ reqs[r].pc = "authenticated"
    /\ SettleBody(r, FaultRequests, LedgerSeeds, LedgerPrefixes, StoreFaults)

\* Concurrent bet requests with good and bad bodies on a store that may fail
NextFault ==
    \/ \E r \in Requests : Authenticate(r)
    \/ \E r \in Requests : SettleFault(r)

SpecFault == Init /\ [][NextFault]_vars

\* The thread of the process runs no synchronous part of a bet handler
threadFree == \A q \in Requests : reqs[q].pc # "settling"

\* A handler runs up to its first await only when the thread is free
AuthenticateTx(r) ==
    /\ threadFree
    /\ Authenticate(r)

\* The body arrived and the thread is free: the handler resumes with the part it runs
\* without awaiting, which calls db.transaction on the connection of the process
BeginSettle(r) ==
    /\ reqs[r].pc = "authenticated"
    /\ threadFree
    /\ reqs' = [reqs EXCEPT ![r].pc = "settling"]
    /\ UNCHANGED <<user, userGameSession, bet, hmac, response, store, now, cookies, processed,
                   userState, called>>

\* The callback of db.transaction returned or threw, the transaction ended and the
\* response was made
EndSettle(r) ==
    /\ reqs[r].pc = "settling"
    /\ SettleBody(r, LedgerRequests, LedgerSeeds, LedgerPrefixes, {None})

\* Concurrent bet requests, with the begin and the end of the synchronous part of the
\* handler as separate steps
NextTx ==
    \/ \E r \in Requests : AuthenticateTx(r)
    \/ \E r \in Requests : BeginSettle(r)
    \/ \E r \in Requests : EndSettle(r)

SpecTx == Init /\ [][NextTx]_vars

\* A call of a method of the userStore with an argument, which leaves newState
StoreCall(method, arg, newState) ==
    /\ userState' = newState
    /\ called' = [method |-> method, arg |-> arg, before |-> userState]
    /\ UNCHANGED <<user, userGameSession, bet, reqs, hmac, response, store, now, cookies,
                   processed>>

SetUser(newUser) == StoreCall("setUser", newUser, userStoreSetUser(userState, newUser))

UpdateBalance(newBalance) ==
    StoreCall("updateBalance", newBalance, userStoreUpdateBalance(userState, newBalance))

SetLoading(isLoading) ==
    StoreCall("setLoading", isLoading, userStoreSetLoading(userState, isLoading))

Reset == StoreCall("reset", None, userStoreReset(userState))

\* Every sequence of calls of the methods of the userStore
NextStore ==
    \/ \E newUser \in PublicUsers \cup {NoUser} : SetUser(newUser)
    \/ \E newBalance \in NewBalances : UpdateBalance(newBalance)
    \/ \E isLoading \in BOOLEAN : SetLoading(isLoading)
    \/ Reset

SpecStore == Init /\ [][NextStore]_vars

----------------------------------------------------------------------------
(* Properties of the ledger *)

Ledger == <<user, userGameSession, bet>>

\* The balance of bet i's user once the bets committed before bet i are applied, in
\* commit order, to the default balance
BalanceBefore(i) ==
    LET earlier == SelectSeq(SubSeq(bet, 1, i - 1), LAMBDA b : b.userId = bet[i].userId)
    IN  Add(Sub(Num(DefaultBalance), SumOf(earlier, "amount")), SumOf(earlier, "payout"))

\* A handleGameBet response was sent in this step
BetResponded == response' # response /\ response'.endpoint = "bet"

\* C1: the committed balance of every principal is >= 0 in every reachable state
BalanceNonNegative == \A u \in Users : Le(Num(0), user[u].balance)

\* A principal bet its whole balance and lost: the committed balance is 0
BalanceExhausted ==
    \E u \in Users : user[u].balance = Num(0) /\ Len(BetsOf(u)) >= 1

\* A request that passed validation against the balance of its session was rejected
\* inside the transaction: the committed balance is below the amount it asked for
RejectedInTransaction ==
    /\ response.endpoint = "bet"
    /\ response.logged
    /\ response.error = "Insufficient balance"
    /\ Lt(user[response.userId].balance, response.data.amount)
    /\ Le(Num(0), user[response.userId].balance)

\* C2: the commit order is a sequential order of the requests: every committed bet
\* passed its balance check against the balance left by the bets of the same principal
\* committed before it, and the new balance a request is answered with is the balance
\* of that sequential order
SerialOrder ==
    /\ \A i \in 1..Len(bet) : Le(bet[i].amount, BalanceBefore(i))
    /\ (response.endpoint = "bet" /\ response.status = 200) =>
         LET i == response.data.result.betId
         IN  response.data.result.newBalance =
               round2(Add(BalanceBefore(i), Sub(bet[i].payout, bet[i].amount)))

\* Two requests of one principal were both authenticated against the default balance,
\* together asked for more than it, and exactly one of them committed a bet
ConcurrentOverspend ==
    \E u \in Users :
      /\ \A r \in Requests :
           reqs[r].pc = "done" /\ reqs[r].userId = u /\ reqs[r].balance = Num(DefaultBalance)
      /\ Len(BetsOf(u)) = 1
      /\ response.error = "Insufficient balance"
      /\ Lt(Num(DefaultBalance), Add(response.data.amount, bet[1].amount))

\* C3: the balance of every principal is its initial balance minus the amounts plus
\* the payouts of its committed bets
BalanceIsLedgerSum ==
    \A u \in Users :
      user[u].balance =
        Add(Sub(Num(DefaultBalance), SumOf(BetsOf(u), "amount")), SumOf(BetsOf(u), "payout"))

\* A principal has a winning and a losing committed bet
WonAndLost ==
    \E u \in Users : \E i, j \in 1..Len(BetsOf(u)) : BetsOf(u)[i].win /\ ~BetsOf(u)[j].win

\* C4: the nonces of a principal's committed bets are, in commit order, 1, 2, ..., k
NoncesContiguous ==
    \A u \in Users : \A j \in 1..Len(BetsOf(u)) : BetsOf(u)[j].nonce = j

\* Two requests of one principal that were in flight together both committed a bet
ConcurrentBetsCommitted ==
    \E u \in Users :
      /\ \A r \in Requests :
           reqs[r].pc = "done" /\ reqs[r].userId = u /\ reqs[r].balance = Num(DefaultBalance)
      /\ Len(BetsOf(u)) = MaxRequests

\* C5: a settlement whose amount exceeds the principal's balance is rejected with
\* 'Insufficient balance', and a settlement rejected so leaves balance, bet records and
\* nonce rows as they were
InsufficientBalanceRejected ==
    [][BetResponded =>
         /\ Lt(user[response'.userId].balance, response'.data.amount) =>
              response'.status = 400 /\ response'.error = "Insufficient balance"
         /\ response'.error = "Insufficient balance" => UNCHANGED Ledger]_vars

----------------------------------------------------------------------------
(* Properties of the bet records and of the GET endpoints, under SpecBet *)

\* C6: verify reports seedHashValid = true and verified = true for every committed bet
\* record, dice or flip
VerifyRoundTrip ==
    (response.endpoint = "verify" /\ response.status = 200) =>
        response.data.seedHashValid /\ response.data.verified

\* C7: no bet record is created for a request with malformed game parameters: every
\* committed bet has a positive amount, a dice bet has betType over or under, a flip
\* bet has side cat or dog
MalformedNeverCommitted ==
    \A i \in 1..Len(bet) :
      /\ Lt(Num(0), bet[i].amount)
      /\ bet[i].gameType = "dice" => bet[i].gameData.betType \in {"over", "under"}
      /\ bet[i].gameType = "flip" => bet[i].gameData.side \in {"cat", "dog"}

DiceBoundsErrors ==
    {"Target must be between 0.01 and 99.99", "Win chance must be between 1% and 98%"}

\* C8: every committed dice bet has a target in [0.01, 99.99], a win chance in [1, 98]
\* that is 100 - target for over and target for under, and a multiplier of at most 99;
\* a dice bet rejected for its target or its win chance leaves the ledger as it was
DiceBetWithinBounds ==
    [][/\ \A i \in 1..Len(bet') :
            bet'[i].gameType = "dice" =>
              LET target == bet'[i].gameData.target
                  winChance == bet'[i].gameData.winChance
              IN  /\ Le(Rat(1, 100), target) /\ Le(target, Rat(9999, 100))
                  /\ Le(Num(1), winChance) /\ Le(winChance, Num(98))
                  /\ bet'[i].gameData.betType = "over" => winChance = Sub(Num(100), target)
                  /\ bet'[i].gameData.betType = "under" => winChance = target
                  /\ Le(bet'[i].multiplier, Num(99))
       /\ (BetResponded /\ response'.error \in DiceBoundsErrors) =>
            response'.status = 400 /\ UNCHANGED Ledger]_vars

\* A dice bet at the lower end of the win chance range was committed: win chance 1,
\* multiplier 99
DiceBetAtBounds ==
    \E i \in 1..Len(bet) :
      /\ bet[i].gameType = "dice"
      /\ bet[i].gameData.winChance = Num(1)
      /\ bet[i].multiplier = Num(99)

\* C9: every bet record carries serverSeedHash = SHA-256(serverSeed)
SeedHashCommitted ==
    \A i \in 1..Len(bet) : bet[i].serverSeedHash = sha256(bet[i].serverSeed)

\* A bet was committed with the second server seed and answered with its hash
BetAnsweredWithSeedHash ==
    /\ response.endpoint = "bet"
    /\ response.status = 200
    /\ bet[response.data.result.betId].serverSeed = "s2"
    /\ response.data.result.serverSeedHash = bet[response.data.result.betId].serverSeedHash

\* C10: the bet a principal commits right after a game-data response carries the
\* nextServerSeedHash that response disclosed
DisclosedHashIsNextBets ==
    [][(/\ response.endpoint = "gameData"
        /\ Len(bet') = Len(bet) + 1
        /\ bet'[Len(bet')].userId = response.userId)
       => bet'[Len(bet')].serverSeedHash = response.data.nextServerSeedHash]_vars

----------------------------------------------------------------------------
(* Properties of the endpoints that read the bet table, under SpecAudit *)

\* C11: a bet record is created once, by the committing step of a settlement, and
\* never changes afterwards: in every step of every endpoint the bet table keeps each
\* of its rows with all field values, and it grows by at most one row, only in a step
\* that answers a bet request with success
BetRecordsImmutable ==
    [][/\ Len(bet') >= Len(bet)
       /\ \A i \in 1..Len(bet) : bet'[i] = bet[i]
       /\ Len(bet') <= Len(bet) + 1
       /\ Len(bet') = Len(bet) + 1 =>
            /\ BetResponded
            /\ response'.status = 200
            /\ \A i \in 1..Len(bet) : bet[i].id # bet'[Len(bet')].id]_vars

\* A second bet was committed while the table held the first, and verify or history
\* then read the table
SettledAfterRead ==
    /\ Len(bet) = 2
    /\ response.endpoint \in {"verify", "history"}
    /\ response.status = 200

\* In a step that answers a bet request with success: the response describes the bet
\* row committed in this step, with newBalance as given, and has no serverSeed
DescribesCommittedBet(newBalance) ==
    LET res == response'.data.result
        row == bet'[Len(bet')]
    IN  /\ Len(bet') = Len(bet) + 1
        /\ row.userId = response'.userId
        /\ res.betId = row.id
        /\ res.win = row.win
        /\ res.nonce = row.nonce
        /\ res.clientSeed = row.clientSeed
        /\ res.serverSeedHash = row.serverSeedHash
        /\ res.newBalance = newBalance
        /\ "serverSeed" \notin DOMAIN res

\* In a step of another endpoint than the bet endpoint: only verify returns the server
\* seed of a bet, and it returns the one of the bet asked for
SeedOnlyFromVerify ==
    /\ response'.endpoint = "history" =>
         \A i \in DOMAIN response'.data.bets :
           "serverSeed" \notin DOMAIN response'.data.bets[i]
    /\ response'.endpoint \in {"gameData", "leaderboard"} =>
         "serverSeed" \notin DOMAIN response'.data
    /\ (response'.endpoint = "verify" /\ response'.status = 200) =>
         \E i \in 1..Len(bet) :
           /\ bet[i].id = response'.data.betId
           /\ bet[i].userId = response'.userId
           /\ response'.data.serverSeed = bet[i].serverSeed

\* C17: a successful bet response describes the bet committed by that request: betId,
\* win, nonce, clientSeed and serverSeedHash are those of the new bet record and
\* newBalance is the balance of the principal right after the commit; it has no raw
\* server seed, nor has the bet history; verify returns it
ResponseIsCommittedBet ==
    [][/\ (BetResponded /\ response'.status = 200) =>
            DescribesCommittedBet(user'[response'.userId].balance)
       /\ (response' # response /\ response'.endpoint # "bet") => SeedOnlyFromVerify]_vars

\* C17, amended: as above, with newBalance the balance of the principal right after the
\* commit rounded to two decimals
ResponseIsCommittedBetRounded ==
    [][/\ (BetResponded /\ response'.status = 200) =>
            DescribesCommittedBet(round2(user'[response'.userId].balance))
       /\ (response' # response /\ response'.endpoint # "bet") => SeedOnlyFromVerify]_vars

\* The second bet of a principal, a dice bet that left a balance with more than two
\* decimals, was answered with that balance rounded
RoundedBalanceAnswered ==
    /\ response.endpoint = "bet"
    /\ response.status = 200
    /\ response.data.result.betId = 2
    /\ bet[1].userId = bet[2].userId
    /\ bet[2].gameType = "dice"
    /\ response.data.result.newBalance = round2(user[response.userId].balance)
    /\ response.data.result.newBalance # user[response.userId].balance

----------------------------------------------------------------------------
(* Properties of the game results, under SpecGame *)

\* A bet of the given game was committed in this step
Committed(gameType) ==
    Len(bet') = Len(bet) + 1 /\ bet'[Len(bet')].gameType = gameType

\* The result derived from the seeds and the nonce of the bet committed in this step
DerivedResult ==
    LET row == bet'[Len(bet')]
    IN  generateGameResult(hmac', row.serverSeed, row.clientSeed, row.nonce)

\* C12: a dice bet (amount, betType, target) committed against balance b with derived
\* result r wins iff (over and r > target) or (under and r < target), so r = target
\* loses; multiplier = 99 / winChance; payout = amount * multiplier on a win, else 0; the
\* committed balance is b + payout - amount.  Amount 100, over, target 50, b = 1000:
\* multiplier 1.98 and balance 1098 on a win, 900 on a loss
DiceBetSettled ==
    [][Committed("dice") =>
         LET row == bet'[Len(bet')]
             b == user[row.userId].balance
             r == DerivedResult
             betType == row.gameData.betType
             target == row.gameData.target
         IN  /\ row.result = r
             /\ row.win <=> \/ betType = "over" /\ Lt(target, r)
                            \/ betType = "under" /\ Lt(r, target)
             /\ r = target => ~row.win
             /\ row.multiplier = Div(Num(99), row.gameData.winChance)
             /\ row.payout = IF row.win THEN Mul(row.amount, row.multiplier) ELSE Num(0)
             /\ user'[row.userId].balance = Sub(Add(b, row.payout), row.amount)
             /\ (row.amount = Num(100) /\ betType = "over" /\ target = Num(50)
                 /\ b = Num(1000)) =>
                  /\ row.multiplier = Rat(198, 100)
                  /\ user'[row.userId].balance = IF row.win THEN Num(1098) ELSE Num(900)]_vars

\* A principal won 100 over 50.00 from the balance 1000 and then lost 100 over 50.00 on
\* the result 50.00
DiceWonThenTied ==
    /\ Len(bet) = 2
    /\ bet[1].userId = bet[2].userId
    /\ \A i \in 1..2 : bet[i].gameType = "dice" /\ bet[i].gameData.betType = "over"
    /\ bet[1].win
    /\ bet[2].result = bet[2].gameData.target /\ ~bet[2].win
    /\ user[bet[1].userId].balance = Num(998)

\* C13: a flip bet (amount, side) committed against balance b with derived result r
\* stores 0 (cat) when r < 50 and 1 (dog) otherwise, wins iff the outcome is the chosen
\* side, has multiplier 99 / 49.5 = 2, and commits the balance b + amount on a win and
\* b - amount on a loss; amount 50 on balance 500 gives 550 or 450
FlipBetSettled ==
    [][Committed("flip") =>
         LET row == bet'[Len(bet')]
             b == user[row.userId].balance
             r == DerivedResult
             outcome == IF Lt(r, Num(50)) THEN "cat" ELSE "dog"
         IN  /\ row.result = IF outcome = "cat" THEN Num(0) ELSE Num(1)
             /\ response'.data.result.flipResult = outcome
             /\ row.win <=> outcome = row.gameData.side
             /\ row.multiplier = Div(Num(99), Rat(495, 10))
             /\ row.multiplier = Num(2)
             /\ user'[row.userId].balance =
                  IF row.win THEN Add(b, row.amount) ELSE Sub(b, row.amount)
             /\ (row.amount = Num(50) /\ b = Num(500)) =>
                  user'[row.userId].balance = IF row.win THEN Num(550) ELSE Num(450)]_vars

\* A principal was left with 500 by a lost flip and then bet 50 on dog with the result
\* 50.00, which is dog: the balance is 550
FlipWonAtBoundary ==
    /\ Len(bet) = 2
    /\ bet[1].userId = bet[2].userId
    /\ bet[1].amount = Num(500) /\ ~bet[1].win
    /\ bet[2].gameType = "flip" /\ bet[2].gameData.side = "dog" /\ bet[2].win
    /\ generateGameResult(hmac, bet[2].serverSeed, bet[2].clientSeed, bet[2].nonce) = Num(50)
    /\ user[bet[2].userId].balance = Num(550)

\* C18: when the request supplies a clientSeed, the committed bet record and the response
\* carry exactly that string; a generated client seed is used only when the request
\* has no clientSeed
ClientSeedVerbatim ==
    [][(BetResponded /\ response'.status = 200) =>
         LET supplied == response'.data.clientSeed
             row == bet'[Len(bet')]
             res == response'.data.result
         IN  /\ supplied # NoClientSeed =>
                  row.clientSeed = supplied /\ res.clientSeed = supplied
             /\ supplied = NoClientSeed =>
                  row.clientSeed \in GeneratedClientSeeds /\ res.clientSeed = row.clientSeed]_vars

----------------------------------------------------------------------------
(* The figures the client displays *)

\* C14: for every bet the server accepts, the win chance and the multiplier the client
\* computes for display are the win chance and the multiplier of the committed bet
DisplayedAsApplied ==
    \A i \in 1..Len(bet) :
      /\ bet[i].gameType = "dice" =>
           LET winChance == gameCalculateDiceWinChance(bet[i].gameData.betType,
                                                       bet[i].gameData.target)
           IN  /\ winChance = bet[i].gameData.winChance
               /\ gameCalculateMultiplier(winChance) = bet[i].multiplier
      /\ bet[i].gameType = "flip" => flipPageMultiplier = bet[i].multiplier

----------------------------------------------------------------------------
(* Settlements of different principals, under SpecTx *)

\* C15: settlements of different principals are independent: while the settlement
\* transaction of one principal is in progress, the settlement transaction of a request
\* of another principal whose body has arrived can begin
SettlementsIndependent ==
    \A r1, r2 \in Requests :
      (/\ reqs[r1].pc = "settling"
       /\ reqs[r2].pc = "authenticated"
       /\ reqs[r1].userId # reqs[r2].userId)
      => ENABLED BeginSettle(r2)

----------------------------------------------------------------------------
(* The responses to failed settlements, under SpecFault *)

ValidationErrors ==
    {"Bet amount must be positive", "Insufficient balance",
     "Target must be between 0.01 and 99.99", "Win chance must be between 1% and 98%",
     "Invalid side selection"}

\* C16: a bet request that fails validation is answered 400 with the validation reason;
\* one whose transaction throws 'Insufficient balance' is answered 400 with
\* 'Insufficient balance'; one whose settlement raises any other error is answered 500
\* with the text 'Internal server error' and not with the message of that error
FailuresMapped ==
    [][BetResponded =>
         LET res == response'
         IN  /\ res.status \in {200, 400, 500}
             /\ (res.status # 200 /\ res.caught = None) =>
                  /\ res.status = 400
                  /\ res.error \in ValidationErrors \cup {"Invalid request body"}
                  /\ res.error = "Bet amount must be positive" =>
                       Le(res.data.amount, Num(0))
                  /\ res.error = "Insufficient balance" =>
                       Lt(reqs[res.req].balance, res.data.amount)
             /\ res.caught = "Insufficient balance" =>
                  /\ res.status = 400 /\ res.error = "Insufficient balance"
                  /\ Lt(user[res.userId].balance, res.data.amount)
             /\ res.caught \notin {None, "Insufficient balance"} =>
                  /\ res.status = 500
                  /\ res.error = "Internal server error"
                  /\ res.error # res.caught
             /\ res.status = 500 => res.caught \notin {None, "Insufficient balance"}]_vars

\* The store failed at the insert of a principal's second bet: the request was answered
\* 500 and the first bet is the only one
StoreFailedAtInsert ==
    /\ response.endpoint = "bet"
    /\ response.status = 500
    /\ response.caught = storeError("insert")
    /\ Len(BetsOf(response.userId)) = 1

----------------------------------------------------------------------------
(* The rate limiter *)

\* C19: a request is answered 429 under the rate limit only when its key has had
\* maxRequests requests let through in the current window: 60 bet requests of the
\* user within 60 seconds, 5 auth attempts of the address within 15 minutes.
LimitedAfterMaxRequests ==
    [][(response' # response /\ response'.status = 429)
         => LET key == response'.data.key
            IN  processed'[key] = key[3]]_vars

----------------------------------------------------------------------------
(* The CSRF check *)

\* The double submit of an event: the cookie and the header it arrives with are both
\* present and equal
DoubleSubmitted(event) ==
    /\ event.cookie # NoToken
    /\ event.header # NoToken
    /\ event.cookie = event.header

\* C20: handleCSRF passes a request exactly when its method is GET, HEAD or OPTIONS or
\* its CSRF cookie and its X-CSRF-Token header are both present and equal; a request
\* of another method that arrives without the cookie has a fresh cookie set and is
\* rejected; a bet request that fails the check is answered 403 'CSRF token
\* validation failed' and changes no user, session or bet row.
CsrfDoubleSubmit ==
    [][/\ response'.endpoint = "handleCSRF"
          => LET event == response'.data.event
                 stateChanging == event.method \notin {"GET", "HEAD", "OPTIONS"}
             IN  /\ response'.data.passed <=> (~stateChanging \/ DoubleSubmitted(event))
                 /\ (response'.status = 403) <=> ~response'.data.passed
                 /\ stateChanging /\ event.cookie = NoToken
                      => /\ response'.data.setCookie # NoToken
                         /\ \E c \in Clients : cookies'[c] = response'.data.setCookie
                         /\ ~response'.data.passed
       /\ \A r \in Requests, c \in Clients, u \in GateUsers, header \in CsrfHeaders :
            LET event == [method |-> "POST", cookie |-> cookies[c], header |-> header]
            IN  EnterBetChecked(r, c, u, header) /\ ~DoubleSubmitted(event)
                  => /\ response'.endpoint = "bet"
                     /\ response'.status = 403
                     /\ response'.error = "CSRF token validation failed"
                     /\ reqs'[r].pc # "authenticated"
                     /\ UNCHANGED <<user, userGameSession, bet, store>>
       /\ \A r \in Requests :
            reqs[r].pc # "authenticated" /\ reqs'[r].pc = "authenticated"
              => \E c \in Clients : cookies[c] # NoToken /\ cookies'[c] = cookies[c]
      ]_vars

\* A bet request with a token other than the one of its cookie was answered 403 after a
\* bet of the same user was committed
MismatchedTokenRejected ==
    /\ response.endpoint = "bet"
    /\ response.status = 403
    /\ response.data.event.cookie # NoToken
    /\ response.data.event.header # NoToken
    /\ response.data.event.header # response.data.event.cookie
    /\ \E i \in DOMAIN bet : bet[i].userId = response.userId

----------------------------------------------------------------------------
(* The outcome derivation, under SpecAudit *)

\* The 8 hexadecimal digits of a digest prefix <<first four, last four>>
hexDigits(hex8) ==
    <<hex8[1] \div 4096, (hex8[1] \div 256) % 16, (hex8[1] \div 16) % 16, hex8[1] % 16,
      hex8[2] \div 4096, (hex8[2] \div 256) % 16, (hex8[2] \div 16) % 16, hex8[2] % 16>>

RECURSIVE valueMod(_, _, _)
\* The value of the first n hexadecimal digits, modulo m
valueMod(digits, n, m) ==
    IF n = 0 THEN 0 ELSE (valueMod(digits, n - 1, m) * 16 + digits[n]) % m

\* Digest prefixes at the bounds of the result: 00000000, 0000270f (99.99), 00002710
\* (0.00), 00010000 (55.36), 7fffffff (36.47), 80000000 (36.48), ffffffff (72.95)
DigestSamples ==
    {<<0, 0>>, <<0, 9999>>, <<0, 10000>>, <<1, 0>>, <<32767, 65535>>, <<32768, 0>>,
     <<65535, 65535>>}

\* The derivation of the outcome of a bet row from the digests computed so far
derivedAgain(b) == generateGameResult(hmac, b.serverSeed, b.clientSeed, b.nonce)

\* C21: the outcome derived from (serverSeed, clientSeed, nonce) is (v mod 10000) / 100
\* for the 32-bit value v of the digest prefix, one of the two-decimal values from
\* 0.00 to 99.99, and deriving it again for the triple of a committed bet gives the
\* value its record was derived from: the roll of a dice bet, the side of a flip bet.
OutcomeDeterministic ==
    /\ \A hex8 \in DigestSamples :
         LET H == [k \in {<<"s1", "c1", 1>>} |-> hex8]
             x == generateGameResult(H, "s1", "c1", 1)
         IN  /\ x = Rat(valueMod(hexDigits(hex8), 8, 10000), 100)
             /\ Le(Num(0), x) /\ Le(x, Rat(9999, 100))
             /\ Mul(x, Num(100))[2] = 1
    /\ \A k \in DOMAIN hmac :
         LET x == generateGameResult(hmac, k[1], k[2], k[3])
         IN  /\ x = Rat(valueMod(hexDigits(hmac[k]), 8, 10000), 100)
             /\ Le(Num(0), x) /\ Le(x, Rat(9999, 100))
             /\ Mul(x, Num(100))[2] = 1
    /\ \A i \in DOMAIN bet :
         /\ bet[i].gameType = "dice" => bet[i].result = derivedAgain(bet[i])
         /\ bet[i].gameType = "flip"
              => bet[i].result = Num(IF Lt(derivedAgain(bet[i]), Num(50)) THEN 0 ELSE 1)
    /\ (response.endpoint = "verify" /\ response.status = 200
        /\ response.data.gameType = "dice")
         => response.data.calculatedResult = response.data.expectedResult

\* A dice bet and a flip bet of two users were derived from the same triple, and the
\* dice bet was verified
SameTripleTwice ==
    /\ Len(bet) = 2
    /\ bet[1].gameType = "dice" /\ bet[2].gameType = "flip"
    /\ bet[1].userId # bet[2].userId
    /\ <<bet[1].serverSeed, bet[1].clientSeed, bet[1].nonce>>
         = <<bet[2].serverSeed, bet[2].clientSeed, bet[2].nonce>>
    /\ Lt(Num(50), bet[1].result)
    /\ response.endpoint = "verify" /\ response.status = 200 /\ response.data.betId = 1

----------------------------------------------------------------------------
(* The verify endpoint, under SpecAudit *)

\* C22: verify answers a principal with the verification data of a bet, the raw server
\* seed included, only for a bet of that principal; for the bet of another principal
\* and for a bet that does not exist it answers the same 404 'Bet not found' with
\* nothing of any record; it changes no state.
VerifyOwnBetsOnly ==
    [][(response' # response /\ response'.endpoint = "verify")
         => LET own == {i \in DOMAIN bet : /\ bet[i].id = response'.data.betId
                                           /\ bet[i].userId = response'.userId}
            IN  /\ response'.status \in {200, 404}
                /\ response'.status = 200 <=> own # {}
                /\ response'.status = 200
                     => \E i \in own : /\ response'.data.serverSeed = bet[i].serverSeed
                                       /\ response'.data.serverSeedHash = bet[i].serverSeedHash
                                       /\ response'.data.clientSeed = bet[i].clientSeed
                                       /\ response'.data.nonce = bet[i].nonce
                                       /\ response'.data.expectedResult = bet[i].result
                                       /\ response'.data.gameData = bet[i].gameData
                /\ response'.status = 404
                     => /\ response'.error = "Bet not found"
                        /\ DOMAIN response'.data = {"betId"}
                /\ UNCHANGED <<user, userGameSession, bet, reqs, hmac, store, now, cookies,
                               processed, userState, called>>
      ]_vars

\* verify answered 404 to a principal who asked for the bet of another principal
OthersBetNotFound ==
    /\ response.endpoint = "verify"
    /\ response.status = 404
    /\ \E i \in DOMAIN bet : /\ bet[i].id = response.data.betId
                             /\ bet[i].userId # response.userId

----------------------------------------------------------------------------
(* The userStore, under SpecStore *)

\* C23: updateBalance(b) changes nothing but the balance of the user: with a user set,
\* the balance becomes b and the other fields of the user and isLoading keep their
\* values; with no user, the state stays as it is.
UpdateBalanceFrame ==
    called.method = "updateBalance"
      => /\ userState.isLoading = called.before.isLoading
         /\ DOMAIN userState = {"user", "isLoading"}
         /\ called.before.user = NoUser => userState.user = NoUser
         /\ called.before.user # NoUser
              => /\ userState.user.balance = called.arg
                 /\ DOMAIN userState.user = DOMAIN called.before.user
                 /\ \A f \in DOMAIN called.before.user \ {"balance"} :
                      userState.user[f] = called.before.user[f]

\* updateBalance(1500) was called on a loading store that held an administrator with
\* balance 0
BalanceUpdatedWhileLoading ==
    /\ called.method = "updateBalance"
    /\ called.arg = Num(1500)
    /\ called.before.isLoading
    /\ called.before.user # NoUser
    /\ called.before.user.balance = Num(0)
    /\ called.before.user.isAdmin

\* C24: reset returns the store to its initial state, user null and isLoading false,
\* from every state that calls of setUser, updateBalance and setLoading reach.
ResetToInitial ==
    called.method = "reset" => userState = [user |-> NoUser, isLoading |-> FALSE]

\* reset was called on a loading store that held a user with an updated balance
ResetFromLoadedUser ==
    /\ called.method = "reset"
    /\ called.before.isLoading
    /\ called.before.user # NoUser
    /\ called.before.user.balance \in NewBalances

----------------------------------------------------------------------------
(* The stages of handleGameBet, under SpecStages *)

\* The rate limiter holds maxRequests counted calls for the key in a window not yet over
Exhausted(key) ==
    /\ key \in DOMAIN store
    /\ now <= store[key].resetTime
    /\ store[key].count >= key[3]

\* C25: handleGameBet opens the settlement transaction only after the CSRF check, the
\* authentication, the rate limit, the parsing of the body and the validation of the
\* bet have passed, in this order; the first stage that fails answers 403, 401, 429,
\* 400 or 400, no later stage runs, and no balance, bet or nonce counter changes.
StagesInOrder ==
    [][/\ \A r \in Requests, c \in Clients, u \in GateUsers \cup BadSessions :
          \A header \in StageHeaders(c) :
            (/\ reqs'[r].pc # "done"
             /\ \A q \in Requests \ {r} : reqs'[q] = reqs[q]
             /\ EnterBet(r, c, u, header))
              => LET event == [method |-> "POST", cookie |-> cookies[c], header |-> header]
                     csrfPassed == DoubleSubmitted(event)
                     authenticated == u \in Users
                     limited == Exhausted(keyOf(bettingIdentifier(u), RATE_LIMITS.betting))
                     answered == response' # response \/ reqs'[r].pc # "authenticated"
                 IN  /\ UNCHANGED <<Ledger, hmac>>
                     /\ ~csrfPassed
                          => /\ response'.status = 403 /\ answered
                             /\ UNCHANGED <<store, processed>>
                     /\ csrfPassed /\ ~authenticated
                          => /\ response'.status = 401 /\ answered
                             /\ response'.error \in {"Authentication required",
                                                     "Invalid session"}
                             /\ UNCHANGED <<store, processed>>
                     /\ csrfPassed /\ authenticated /\ limited
                          => /\ response'.status = 429 /\ answered
                             /\ reqs'[r].pc # "authenticated"
                     /\ csrfPassed /\ authenticated /\ ~limited
                          => /\ reqs'[r].pc = "authenticated"
                             /\ reqs'[r].userId = u
                             /\ UNCHANGED response
       /\ \A r \in Requests, request \in StageRequests :
            (reqs[r].pc = "authenticated" /\ reqs'[r].pc = "done"
             /\ SettleBody(r, {request}, LedgerSeeds, GatePrefixes, {None}))
              => LET parsed == request # MalformedBody
                     valid == /\ Lt(Num(0), request.amount)
                              /\ Le(request.amount, reqs[r].balance)
                     opened == response'.status = 200 \/ response'.caught # None
                 IN  /\ ~parsed
                          => /\ response'.status = 400
                             /\ response'.error = "Invalid request body"
                             /\ ~opened
                             /\ UNCHANGED <<Ledger, hmac>>
                     /\ parsed /\ ~valid
                          => /\ response'.status = 400
                             /\ response'.error \in {"Bet amount must be positive",
                                                     "Insufficient balance"}
                             /\ ~opened
                             /\ UNCHANGED <<Ledger, hmac>>
                     /\ parsed /\ valid => opened
       /\ ~(UNCHANGED Ledger)
            => \E r \in Requests : /\ reqs[r].pc = "authenticated"
                                   /\ reqs'[r].pc = "done"
                                   /\ response'.req = r
                                   /\ response'.status = 200
      ]_vars

\* A bet request was answered 429 after a bet of its user was committed
LimitedAfterCommit ==
    /\ response.endpoint = "bet"
    /\ response.status = 429
    /\ \E i \in DOMAIN bet : bet[i].userId = response.userId
    /\ \A r \in Requests : reqs[r].pc # "authenticated"

----------------------------------------------------------------------------
(* The windows of the rate limiter, under SpecLimit *)

\* The keys of the identifiers in the store
LimiterKeys == DOMAIN store \ {LastCleanup}

\* The call isRateLimited(identifier, config) of a key, made d milliseconds from now
callAfter(key, d) ==
    isRateLimited(store, now + d, key[1], [windowMs |-> key[2], maxRequests |-> key[3]])

\* Milliseconds from now to the next call of a key: none, one, its window, one more
Delays(key) == {0, 1, key[2], key[2] + 1}

\* A call made once the time exceeds the resetTime of its key is let through, with the
\* count 1 and the resetTime of a new window; a rejected call leaves the entry of its
\* key as it is
WindowRestarts(key) ==
    \A d \in Delays(key) :
      LET result == callAfter(key, d)
      IN  /\ now + d > store[key].resetTime
               => /\ ~result.limited
                  /\ result.store[key] = [count |-> 1, resetTime |-> now + d + key[2]]
          /\ result.limited => result.store[key] = store[key]

----------------------------------------------------------------------------
(* The game-data endpoint, under SpecAudit *)

\* C27: game data answers nextNonce = currentNonce + 1, 1 for a principal without a
\* nonce row; the next bet of the principal that commits, with no bet committed in
\* between, has that nonce; the GET changes no balance, bet or nonce counter.
NextNonceIsNextBets ==
    [][/\ (response' # response /\ response'.endpoint = "gameData")
            => LET u == response'.userId
               IN  /\ response'.data.nextNonce
                        = IF u \in DOMAIN userGameSession
                          THEN userGameSession[u].currentNonce + 1 ELSE 1
                   /\ response'.data.nextNonce
                        = Cardinality({i \in DOMAIN bet : bet[i].userId = u}) + 1
                   /\ UNCHANGED <<user, userGameSession, bet, reqs, hmac, store, now,
                                  cookies, processed>>
       /\ (response.endpoint = "gameData" /\ Len(bet') = Len(bet) + 1
           /\ bet'[Len(bet')].userId = response.userId)
            => bet'[Len(bet')].nonce = response.data.nextNonce
      ]_vars

\* Game data answered nextNonce 2 to a principal with one bet and a request in flight
SecondNonceAnnounced ==
    /\ response.endpoint = "gameData"
    /\ response.data.nextNonce = 2
    /\ \E r \in Requests : /\ reqs[r].pc = "authenticated"
                           /\ reqs[r].userId = response.userId

----------------------------------------------------------------------------
(* The nonce counter, under SpecFault *)

\* C28: the nonce counter of a principal is the number of the committed bets of the
\* principal, dice and flip bets counted together, and the principal has a nonce row
\* exactly when the principal has a committed bet.
NonceCountsBets ==
    \A u \in Users :
      LET bets == {i \in DOMAIN bet : bet[i].userId = u}
      IN  /\ u \in DOMAIN userGameSession <=> bets # {}
          /\ u \in DOMAIN userGameSession
               => userGameSession[u].currentNonce = Cardinality(bets)

\* A principal has a dice bet and a flip bet and the nonce counter 2, the other
\* principal has no bet
BothGamesCounted ==
    \E u \in Users :
      /\ u \in DOMAIN userGameSession
      /\ userGameSession[u].currentNonce = 2
      /\ {bet[i].gameType : i \in {j \in DOMAIN bet : bet[j].userId = u}} = {"dice", "flip"}
      /\ \E v \in Users \ {u} : v \notin DOMAIN userGameSession

----------------------------------------------------------------------------
(* What a settlement leaves alone, under SpecFault *)

\* The rows of a principal: the balance, the nonce row if there is one, the bets
rowsOf(users, sessions, bets, u) ==
    [balance |-> users[u].balance,
     session |-> IF u \in DOMAIN sessions THEN <<sessions[u]>> ELSE << >>,
     bets |-> SelectSeq(bets, LAMBDA b : b.userId = u)]

\* C29: a settlement request of a principal, accepted or rejected, leaves the balance,
\* the nonce counter and the bet records of every other principal unchanged
OthersUntouched ==
    [][\A r \in Requests :
         (reqs[r].pc = "authenticated" /\ reqs'[r].pc = "done")
         => \A B \in Users \ {reqs[r].userId} :
              rowsOf(user', userGameSession', bet', B) = rowsOf(user, userGameSession, bet, B)]_vars

\* A bet of a principal was committed after a bet of the other principal, whose
\* balance moved with that bet and has not moved since
CommittedBesideAnother ==
    /\ response.endpoint = "bet"
    /\ response.status = 200
    /\ Len(bet) = 2
    /\ bet[2].userId = response.userId
    /\ bet[1].userId # bet[2].userId
    /\ user[bet[1].userId].balance
         = Add(Num(DefaultBalance), Sub(bet[1].payout, bet[1].amount))
    /\ user[bet[1].userId].balance # Num(DefaultBalance)

----------------------------------------------------------------------------
(* The outcomes on which a bet wins, under SpecGame *)

\* The digest whose first 8 hex characters are the number k: generateGameResult maps the
\* digests 0 .. 9999 onto the 10000 outcomes 0.00 .. 99.99, one each
digestOf(k) == (<<"s", "c", 1>> :> <<0, k>>)

\* The number of the 10000 outcomes on which the bet row b wins
winningOutcomes(b) ==
    IF b.gameType = "dice"
    THEN Cardinality({k \in 0..9999 :
                        isDiceWin(generateDiceRoll(digestOf(k), "s", "c", 1),
                                  b.gameData.betType, b.gameData.target)})
    ELSE Cardinality({k \in 0..9999 :
                        isCoinFlipWin(generateCoinFlip(digestOf(k), "s", "c", 1),
                                      b.gameData.side)})

\* C30: every accepted bet wins on winChance * 100 of the 10000 outcomes, winChance
\* being the win chance its multiplier was computed from
HouseEdgeCarried ==
    \A i \in DOMAIN bet :
      /\ bet[i].multiplier = calculateMultiplier(bet[i].gameData.winChance)
      /\ Num(winningOutcomes(bet[i])) = Mul(bet[i].gameData.winChance, Num(100))

====
